---- MODULE Spec2Model ----
(***************************************************************************)
(* Model of two workers of the bee node:                                   *)
(*   - bee-autopeering discovery/query.rs: the reverify and query ticks    *)
(*     and the selection of the peers to query;                            *)
(*   - bee-protocol worker/message/processor.rs: the message processor     *)
(*     loop.                                                               *)
(***************************************************************************)
EXTENDS Integers, Sequences, FiniteSets, TLC

(***************************************************************************)
(* Bounds of the model.                                                    *)
(***************************************************************************)
\* Longest active list the selection is checked on.
MaxPeers == 5
\* Values of last_new_peers and of verified_count the lists are drawn from.
Metrics == {0, 1, 2}

\* Most verification/query tasks outstanding at once.
MaxTasks == 3
\* Longest active list the ticks are run on.
MaxActive == 3
\* Capacity of the replacement list.
ReplCap == 1
\* Most events the processor takes from its channel.
MaxEvents == 2
\* Most entries RequestedMessages holds at once.
MaxRequested == 1

VARIABLES
    \* --- autopeering ---
    active_peers,   \* ActivePeersList: sequence of ActivePeer, newest first
    rotated,        \* whether rotate_forwards was applied to active_peers
    query,          \* the last call of select_peers_to_query on active_peers
    entry_peers,    \* EntryPeersList: set of PeerId
    replacements,   \* ReplacementPeersList: sequence of PeerId, newest first
    tasks,          \* spawned tasks not yet finished: <<kind, peer_id>> -> count
    event_tx,       \* the peer-removed events sent, in order
    last_tick,      \* what the last tick did
    failed,         \* PeerId -> number of tasks for it that ended in failure
    \* --- message processor ---
    pc,                  \* where the worker's loop is
    cur,                 \* the event being processed (the last one, at "recv")
    received,            \* number of events taken from the channel
    blake2b,             \* the hasher: the bytes absorbed since its last reset
    tangle,              \* MessageId -> stored message and metadata
    requested_messages,  \* RequestedMessages: MessageId -> requester index
    metrics,             \* ProtocolMetrics: the three message counters
    peer_metrics,        \* PeerManager::peers: PeerId -> known_messages
    propagator,          \* sends to the propagator: MessageId -> count
    milestone_validator, \* sends to the milestone validator: MessageId -> count
    sent,                \* what the current iteration sent on its notifier, to
                         \* the propagator, the broadcaster, the milestone
                         \* validator and the message requester, in order
    removals,            \* removals from RequestedMessages by the loop: id -> count
    arrivals             \* the packets (bytes) that reached tangle.insert

selVars == <<active_peers, rotated, query>>
discVars == <<entry_peers, replacements, tasks, event_tx, last_tick, failed>>
procVars == <<pc, cur, received, blake2b, tangle, requested_messages, metrics,
              peer_metrics, propagator, milestone_validator, sent, removals,
              arrivals>>
vars == <<active_peers, rotated, query, entry_peers, replacements, tasks,
          event_tx, last_tick, failed, pc, cur, received, blake2b, tangle,
          requested_messages, metrics, peer_metrics, propagator,
          milestone_validator, sent, removals, arrivals>>

(***************************************************************************)
(* Option<T>: None is the empty sequence, Some(v) the one-element one.     *)
(***************************************************************************)
None == <<>>
Some(v) == <<v>>

(***************************************************************************)
(* The message processor (ProcessorWorker::start).                         *)
(***************************************************************************)
\* Config = (ProtocolConfig, u64): the minimum pow score and the network id.
config == [minimum_pow_score |-> 2, network_id |-> 1]

\* The raw packets the model submits. A well-formed packet is
\* <<network_id, parent1, parent2, payload tag>>, the tag 0 (no payload),
\* 1 (milestone) or 2 (indexation).
Malformed == <<7>>
WrongNet == <<2, 5, 5, 1>>
MilestoneSameParents == <<1, 5, 5, 1>>
IndexationTwoParents == <<1, 5, 6, 2>>
Packets == {Malformed, WrongNet, MilestoneSameParents, IndexationTwoParents}
PayloadTags == {0, 1, 2}

\* Message::unpack: Some(message), or None for an Err.
Message_unpack(bytes) ==
    IF Len(bytes) = 4 /\ bytes[4] \in PayloadTags
    THEN Some([network_id |-> bytes[1], parent1 |-> bytes[2],
               parent2 |-> bytes[3], payload |-> bytes[4]])
    ELSE None

RECURSIVE Digest(_)
\* The Blake2b digest of a byte string: a function of all its bytes, taken
\* to be free of collisions.
Digest(bytes) ==
    IF bytes = <<>> THEN 0
    ELSE Digest(SubSeq(bytes, 1, Len(bytes) - 1)) * 10 + bytes[Len(bytes)] + 1

\* blake2b.update(bytes) on the hasher state.
blake2b_update(state, bytes) == state \o bytes

\* A finalize that leaves the absorbed bytes in the hasher.
blake2b_finalize_keeps_state(state) == [digest |-> Digest(state), state |-> state]

\* blake2b.finalize_variable_reset: the digest of what was absorbed; the
\* hasher starts afresh.
blake2b_finalize_variable_reset(state) == [digest |-> Digest(state), state |-> <<>>]

\* The peers: PeerManager::peers holds RegisteredPeers; an event may still
\* come from a peer that is no longer in it.
RegisteredPeers == {"peerA"}
Peers == {"peerA", "peerB"}
PowScores == {config.minimum_pow_score - 1, config.minimum_pow_score}
\* The requester indexes of RequestedMessages entries.
Indexes == {1, 2}

\* ProcessorWorkerEvent
Events ==
    [pow_score : PowScores,
     from : {None} \cup {Some(p) : p \in Peers},
     message_packet : Packets,
     notifier : {None, Some("tx")}]

ValidIds == {Digest(p) : p \in {b \in Packets : Message_unpack(b) # None}}
\* The ids the request/retry component asks for: messages of this network.
RequestedIds == {Digest(MilestoneSameParents), Digest(IndexationTwoParents)}

\* Result<MessageId, MessageSubmitterError>
Ok(id) == [ok |-> TRUE, id |-> id, err |-> ""]
Err(e) == [ok |-> FALSE, id |-> 0, err |-> e]

\* What one iteration of the loop sent, in order.
NoSends == [notifier |-> <<>>, propagator |-> <<>>, broadcaster |-> <<>>,
            milestone_validator |-> <<>>, message_requester |-> <<>>,
            removed |-> <<>>, peer_known |-> <<>>, failed |-> <<>>]

\* The channels to the downstream workers whose send result the loop tests.
Channels == {"propagator", "broadcaster", "milestone_validator"}
\* `if let Err(e) = tx.send(..)`: a send that returned Err (the receiving
\* worker is gone) is logged and nothing else.
send_failed(s, channel, ok) ==
    IF ok THEN s ELSE [s EXCEPT !.failed = Append(@, channel)]

\* The locals of the loop body before an event is taken.
NoEvent == [pow_score |-> 0, from |-> None, message_packet |-> <<>>,
            notifier |-> None, message |-> None, message_id |-> None,
            requested |-> FALSE, first_arrival |-> FALSE, stages |-> <<>>,
            outcome |-> "none"]

EmptyMap == [k \in {} |-> 0]
Put(f, k, v) == [x \in DOMAIN f \cup {k} |-> IF x = k THEN v ELSE f[x]]
Drop(f, k) == [x \in DOMAIN f \ {k} |-> f[x]]
\* One more send of item on a channel, the channel kept as item -> count.
Sent(ch, item) == Put(ch, item, IF item \in DOMAIN ch THEN ch[item] + 1 ELSE 1)

ProcIdle ==
    /\ pc = "recv"
    /\ cur = NoEvent
    /\ received = 0
    /\ blake2b = <<>>
    /\ tangle = EmptyMap
    /\ requested_messages = EmptyMap
    /\ metrics = [invalid_messages |-> 0, new_messages |-> 0, known_messages |-> 0]
    /\ peer_metrics = [p \in RegisteredPeers |-> 0]
    /\ propagator = EmptyMap
    /\ milestone_validator = EmptyMap
    /\ sent = NoSends
    /\ removals = EmptyMap
    /\ arrivals = {}

\* notify_err / notify_message_id: one send on the event's notifier, if it has
\* one; delivered tells whether the receiving end was still there.
notify(s, notifier, result, delivered) ==
    IF notifier = None THEN s
    ELSE [s EXCEPT !.notifier = Append(@, [result |-> result, delivered |-> delivered])]

\* A rejection that leaves the invalid counter alone.
Reject_uncounted(reason, text, delivered) ==
    /\ metrics' = metrics
    /\ sent' = notify(sent, cur.notifier, Err(text), delivered)
    /\ cur' = [cur EXCEPT !.outcome = reason, !.stages = Append(@, reason)]
    /\ pc' = "recv"

\* A rejection that counts the message as invalid twice.
Reject_counts_twice(reason, text, delivered) ==
    /\ metrics' = [metrics EXCEPT !.invalid_messages = @ + 2]
    /\ sent' = notify(sent, cur.notifier, Err(text), delivered)
    /\ cur' = [cur EXCEPT !.outcome = reason, !.stages = Append(@, reason)]
    /\ pc' = "recv"

\* A rejection that leaves the loop instead of going on to the next event.
Reject_breaks(reason, text, delivered) ==
    /\ metrics' = [metrics EXCEPT !.invalid_messages = @ + 1]
    /\ sent' = notify(sent, cur.notifier, Err(text), delivered)
    /\ cur' = [cur EXCEPT !.outcome = reason, !.stages = Append(@, reason)]
    /\ pc' = "stopped"

\* A rejection: the invalid counter, the error to the notifier, `continue`.
Reject(reason, text, delivered) ==
    /\ metrics' = [metrics EXCEPT !.invalid_messages = @ + 1]
    /\ sent' = notify(sent, cur.notifier, Err(text), delivered)
    /\ cur' = [cur EXCEPT !.outcome = reason, !.stages = Append(@, reason)]
    /\ pc' = "recv"

\* receiver.next().await yields the next event of the channel.
Recv(ev) ==
    /\ UNCHANGED <<selVars, discVars>>
    /\ pc = "recv"
    /\ received < MaxEvents
    /\ received' = received + 1
    /\ cur' = [NoEvent EXCEPT !.pow_score = ev.pow_score, !.from = ev.from,
                              !.message_packet = ev.message_packet,
                              !.notifier = ev.notifier]
    /\ sent' = NoSends
    /\ pc' = "unpack"
    /\ UNCHANGED <<blake2b, tangle, requested_messages, metrics, peer_metrics,
                   propagator, milestone_validator, removals, arrivals>>

\* receiver.next().await yields None: the shutdown signal. The loop ends.
Shutdown ==
    /\ UNCHANGED <<selVars, discVars>>
    /\ pc = "recv"
    /\ pc' = "stopped"
    /\ UNCHANGED <<cur, received, blake2b, tangle, requested_messages, metrics,
                   peer_metrics, propagator, milestone_validator, sent, removals,
                   arrivals>>

\* Message::unpack of the packet's bytes.
Unpack(delivered) ==
    /\ UNCHANGED <<selVars, discVars>>
    /\ pc = "unpack"
    /\ LET message == Message_unpack(cur.message_packet) IN
       IF message = None
       THEN Reject("MalformedMessage", "Invalid message", delivered)
       ELSE /\ cur' = [cur EXCEPT !.message = message, !.stages = Append(@, "unpack")]
            /\ pc' = "network_id"
            /\ UNCHANGED <<metrics, sent>>
    /\ UNCHANGED <<received, blake2b, tangle, requested_messages, peer_metrics,
                   propagator, milestone_validator, removals, arrivals>>

\* The network id check left out.
NetworkId_unchecked(delivered) ==
    /\ UNCHANGED <<selVars, discVars>>
    /\ pc = "network_id"
    /\ cur' = [cur EXCEPT !.stages = Append(@, "network_id")]
    /\ pc' = "hash"
    /\ UNCHANGED <<metrics, sent>>
    /\ UNCHANGED <<received, blake2b, tangle, requested_messages, peer_metrics,
                   propagator, milestone_validator, removals, arrivals>>

\* message.network_id() != config.1
NetworkId(delivered) ==
    /\ UNCHANGED <<selVars, discVars>>
    /\ pc = "network_id"
    /\ IF cur.message[1].network_id # config.network_id
       THEN Reject("WrongNetwork", "Incompatible network ID", delivered)
       ELSE /\ cur' = [cur EXCEPT !.stages = Append(@, "network_id")]
            /\ pc' = "hash"
            /\ UNCHANGED <<metrics, sent>>
    /\ UNCHANGED <<received, blake2b, tangle, requested_messages, peer_metrics,
                   propagator, milestone_validator, removals, arrivals>>

\* blake2b.update, finalize_variable_reset, MessageId::from.
Hash ==
    /\ UNCHANGED <<selVars, discVars>>
    /\ pc = "hash"
    /\ LET h == blake2b_finalize_variable_reset(
                    blake2b_update(blake2b, cur.message_packet)) IN
       /\ blake2b' = h.state
       /\ cur' = [cur EXCEPT !.message_id = Some(h.digest),
                             !.stages = Append(@, "hash")]
    /\ pc' = "pow"
    /\ UNCHANGED <<received, tangle, requested_messages, metrics, peer_metrics,
                   propagator, milestone_validator, sent, removals, arrivals>>

\* The pow rejection without the reply to the notifier.
Pow_silent(delivered) ==
    /\ UNCHANGED <<selVars, discVars>>
    /\ pc = "pow"
    /\ IF cur.pow_score < config.minimum_pow_score
       THEN /\ metrics' = [metrics EXCEPT !.invalid_messages = @ + 1]
            /\ cur' = [cur EXCEPT !.outcome = "InsufficientProof",
                                  !.stages = Append(@, "InsufficientProof")]
            /\ pc' = "recv"
            /\ sent' = sent
       ELSE /\ cur' = [cur EXCEPT !.stages = Append(@, "pow")]
            /\ pc' = "lookup"
            /\ UNCHANGED <<metrics, sent>>
    /\ UNCHANGED <<received, blake2b, tangle, requested_messages, peer_metrics,
                   propagator, milestone_validator, removals, arrivals>>

\* pow_score < config.0.minimum_pow_score
Pow(delivered) ==
    /\ UNCHANGED <<selVars, discVars>>
    /\ pc = "pow"
    /\ IF cur.pow_score < config.minimum_pow_score
       THEN Reject("InsufficientProof", "Insufficient pow score", delivered)
       ELSE /\ cur' = [cur EXCEPT !.stages = Append(@, "pow")]
            /\ pc' = "lookup"
            /\ UNCHANGED <<metrics, sent>>
    /\ UNCHANGED <<received, blake2b, tangle, requested_messages, peer_metrics,
                   propagator, milestone_validator, removals, arrivals>>

\* The lookup done with remove instead of contains_key.
Lookup_removes ==
    /\ UNCHANGED <<selVars, discVars>>
    /\ pc = "lookup"
    /\ LET id == cur.message_id[1]
           found == id \in DOMAIN requested_messages IN
       /\ cur' = [cur EXCEPT !.requested = found, !.stages = Append(@, "lookup")]
       /\ requested_messages' = Drop(requested_messages, id)
       /\ removals' = IF found THEN Sent(removals, id) ELSE removals
       /\ sent' = IF found
                  THEN [sent EXCEPT !.removed =
                            Append(@, [message_id |-> id, index |-> requested_messages[id]])]
                  ELSE sent
    /\ pc' = "insert"
    /\ UNCHANGED <<received, blake2b, tangle, metrics, peer_metrics,
                   propagator, milestone_validator, arrivals>>

\* requested_messages.contains_key(&message_id)
Lookup ==
    /\ UNCHANGED <<selVars, discVars>>
    /\ pc = "lookup"
    /\ cur' = [cur EXCEPT !.requested = cur.message_id[1] \in DOMAIN requested_messages,
                          !.stages = Append(@, "lookup")]
    /\ pc' = "insert"
    /\ UNCHANGED <<received, blake2b, tangle, requested_messages, metrics,
                   peer_metrics, propagator, milestone_validator, sent, removals,
                   arrivals>>

\* MsTangle::insert: stores a new message and returns it; None when the id is
\* already stored, the stored entry untouched.
tangle_insert(t, message, message_id, metadata) ==
    IF message_id \in DOMAIN t THEN t
    ELSE Put(t, message_id, [message |-> message, metadata |-> metadata])

\* The New branch taken whatever tangle.insert returned.
Insert_always_new(delivered, propagated) ==
    /\ UNCHANGED <<selVars, discVars>>
    /\ pc = "insert"
    /\ LET id == cur.message_id[1]
           metadata == [requested |-> cur.requested]
           isNew == TRUE
       IN
       /\ tangle' = tangle_insert(tangle, cur.message[1], id, metadata)
       /\ arrivals' = arrivals \cup {cur.message_packet}
       /\ IF isNew
          THEN /\ sent' = send_failed(
                              [notify(sent, cur.notifier, Ok(id), delivered)
                                  EXCEPT !.propagator = Append(@, id)],
                              "propagator", propagated)
               /\ propagator' = Sent(propagator, id)
               /\ metrics' = [metrics EXCEPT !.new_messages = @ + 1]
               /\ cur' = [cur EXCEPT !.stages = Append(@, "insert"),
                                     !.first_arrival = cur.message_packet \notin arrivals]
               /\ pc' = "route"
               /\ UNCHANGED peer_metrics
          ELSE /\ metrics' = [metrics EXCEPT !.known_messages = @ + 1]
               /\ LET counted == cur.from # None /\ cur.from[1] \in DOMAIN peer_metrics IN
                  /\ peer_metrics' = IF counted
                                     THEN [peer_metrics EXCEPT ![cur.from[1]] = @ + 1]
                                     ELSE peer_metrics
                  /\ sent' = [notify(sent, cur.notifier, Ok(id), delivered)
                                 EXCEPT !.peer_known =
                                     IF counted THEN Append(@, cur.from[1]) ELSE @]
               /\ cur' = [cur EXCEPT !.outcome = "Known", !.stages = Append(@, "Known"),
                                     !.first_arrival = cur.message_packet \notin arrivals]
               /\ pc' = "recv"
               /\ UNCHANGED propagator
    /\ UNCHANGED <<received, blake2b, requested_messages, milestone_validator,
                   removals>>

\* tangle.insert(..).await and what follows it up to requested_messages.remove:
\* on Some the reply, the send to the propagator and the new counter; on None
\* the whole else branch. delivered and propagated are the results of the
\* sends on the notifier and to the propagator.
Insert(delivered, propagated) ==
    /\ UNCHANGED <<selVars, discVars>>
    /\ pc = "insert"
    /\ LET id == cur.message_id[1]
           metadata == [requested |-> cur.requested]
           isNew == id \notin DOMAIN tangle
       IN
       /\ tangle' = tangle_insert(tangle, cur.message[1], id, metadata)
       /\ arrivals' = arrivals \cup {cur.message_packet}
       /\ IF isNew
          THEN /\ sent' = send_failed(
                              [notify(sent, cur.notifier, Ok(id), delivered)
                                  EXCEPT !.propagator = Append(@, id)],
                              "propagator", propagated)
               /\ propagator' = Sent(propagator, id)
               /\ metrics' = [metrics EXCEPT !.new_messages = @ + 1]
               /\ cur' = [cur EXCEPT !.stages = Append(@, "insert"),
                                     !.first_arrival = cur.message_packet \notin arrivals]
               /\ pc' = "route"
               /\ UNCHANGED peer_metrics
          ELSE /\ metrics' = [metrics EXCEPT !.known_messages = @ + 1]
               /\ LET counted == cur.from # None /\ cur.from[1] \in DOMAIN peer_metrics IN
                  /\ peer_metrics' = IF counted
                                     THEN [peer_metrics EXCEPT ![cur.from[1]] = @ + 1]
                                     ELSE peer_metrics
                  /\ sent' = [notify(sent, cur.notifier, Ok(id), delivered)
                                 EXCEPT !.peer_known =
                                     IF counted THEN Append(@, cur.from[1]) ELSE @]
               /\ cur' = [cur EXCEPT !.outcome = "Known", !.stages = Append(@, "Known"),
                                     !.first_arrival = cur.message_packet \notin arrivals]
               /\ pc' = "recv"
               /\ UNCHANGED propagator
    /\ UNCHANGED <<received, blake2b, requested_messages, milestone_validator,
                   removals>>

\* helper::request_message(.., message_id, index): one request handed to the
\* message requester.
request_message(reqs, message_id, index) ==
    Append(reqs, [message_id |-> message_id, index |-> index])

\* The parent requests of a requested message without the parent1 != parent2 test.
parent_requests_both(message, index) ==
    request_message(request_message(<<>>, message.parent1, index),
                    message.parent2, index)

\* The parent requests of a requested message.
parent_requests(message, index) ==
    IF message.parent1 # message.parent2
    THEN request_message(request_message(<<>>, message.parent1, index),
                         message.parent2, index)
    ELSE request_message(<<>>, message.parent1, index)

\* A broadcast that forgets where the packet came from.
BroadcasterWorkerEvent_no_source(from, message_packet) ==
    [source |-> None, message |-> message_packet]

\* BroadcasterWorkerEvent { source: from, message: message_packet }
BroadcasterWorkerEvent(from, message_packet) ==
    [source |-> from, message |-> message_packet]

\* A payload match that forwards every message that has a payload.
milestone_events_any_payload(message, message_id) ==
    IF message.payload # 0 THEN <<message_id>> ELSE <<>>

\* match message.payload(): Some(Payload::Milestone(_)) sends the id to the
\* milestone validator; Some(Payload::Indexation(_)) and _ send nothing.
milestone_events(message, message_id) ==
    IF message.payload = 1 THEN <<message_id>> ELSE <<>>

RECURSIVE SentAll(_, _)
SentAll(ch, items) ==
    IF items = <<>> THEN ch ELSE SentAll(Sent(ch, Head(items)), Tail(items))

\* requested_messages.remove and the routing of a new message: the parent
\* requests or the broadcast, then the milestone payload. broadcast and
\* validated are the results of the sends to the broadcaster and to the
\* milestone validator, when they are made.
Route(broadcast, validated) ==
    /\ UNCHANGED <<selVars, discVars>>
    /\ pc = "route"
    /\ LET id == cur.message_id[1]
           message == cur.message[1]
           entry == IF id \in DOMAIN requested_messages
                    THEN Some(requested_messages[id]) ELSE None
           requests == IF entry # None THEN parent_requests(message, entry[1]) ELSE <<>>
           packet == BroadcasterWorkerEvent(cur.from, cur.message_packet)
           broadcasts == IF entry = None THEN <<packet>> ELSE <<>>
           milestones == milestone_events(message, id)
       IN
       /\ requested_messages' = Drop(requested_messages, id)
       /\ removals' = IF entry # None THEN Sent(removals, id) ELSE removals
       /\ milestone_validator' = SentAll(milestone_validator, milestones)
       /\ sent' = send_failed(
                      send_failed(
                          [sent EXCEPT !.message_requester = requests,
                                       !.broadcaster = broadcasts,
                                       !.milestone_validator = milestones,
                                       !.removed =
                                           IF entry # None
                                           THEN Append(@, [message_id |-> id,
                                                           index |-> entry[1]])
                                           ELSE @],
                          "broadcaster", broadcast \/ broadcasts = <<>>),
                      "milestone_validator", validated \/ milestones = <<>>)
       /\ cur' = [cur EXCEPT !.outcome = "New", !.stages = Append(@, "New")]
    /\ pc' = "recv"
    /\ UNCHANGED <<received, blake2b, tangle, metrics, peer_metrics, propagator,
                   arrivals>>

\* The request/retry component puts an entry into RequestedMessages.
ExternalInsert(id, index) ==
    /\ UNCHANGED <<selVars, discVars>>
    /\ id \notin DOMAIN requested_messages
    /\ Cardinality(DOMAIN requested_messages) < MaxRequested
    /\ requested_messages' = Put(requested_messages, id, index)
    /\ UNCHANGED <<pc, cur, received, blake2b, tangle, metrics, peer_metrics,
                   propagator, milestone_validator, sent, removals, arrivals>>

\* The request/retry component takes an entry out of RequestedMessages.
ExternalRemove(id) ==
    /\ UNCHANGED <<selVars, discVars>>
    /\ id \in DOMAIN requested_messages
    /\ requested_messages' = Drop(requested_messages, id)
    /\ UNCHANGED <<pc, cur, received, blake2b, tangle, metrics, peer_metrics,
                   propagator, milestone_validator, sent, removals, arrivals>>

\* One step of the loop body on the event taken.
WorkerStep ==
    \/ \E delivered \in BOOLEAN : Unpack(delivered)
    \/ \E delivered \in BOOLEAN : NetworkId(delivered)
    \/ Hash
    \/ \E delivered \in BOOLEAN : Pow(delivered)
    \/ Lookup
    \/ \E delivered, propagated \in BOOLEAN : Insert(delivered, propagated)
    \/ \E broadcast, validated \in BOOLEAN : Route(broadcast, validated)

(***************************************************************************)
(* The autopeering registry.                                               *)
(***************************************************************************)
ActivePeer(id, vc, lnp) ==
    [peer_id |-> id, verified_count |-> vc, last_new_peers |-> lnp]

\* manager::get_verified_peers: the peers with verified_count >= 1, in list order.
get_verified_peers(list) ==
    LET verified(ap) == ap.verified_count >= 1 IN SelectSeq(list, verified)

\* The num! macro: the metric of an occupied slot.
num(t) == t[1].last_new_peers

Slots(a, b, c) == [x |-> a, y |-> b, z |-> c]

\* The fold's closure with the comparisons turned around on ties (n <= num).
fold_step_ties_early(acc, p) ==
    LET x == acc.x
        y == acc.y
        z == acc.z
        n == p.last_new_peers
    IN  IF x = None THEN Slots(Some(p), y, z)
        ELSE IF y = None THEN
            IF n <= num(x) THEN Slots(Some(p), x, z) ELSE Slots(x, Some(p), z)
        ELSE IF z = None THEN
            IF n <= num(x) THEN Slots(Some(p), x, y)
            ELSE IF n <= num(y) THEN Slots(x, Some(p), y)
            ELSE Slots(x, y, Some(p))
        ELSE IF n <= num(x) THEN Slots(x, y, z)
        ELSE IF n <= num(y) THEN Slots(Some(p), y, z)
        ELSE IF n <= num(z) THEN Slots(y, Some(p), z)
        ELSE Slots(y, z, Some(p))

\* The fold's closure without its no-op arm: a peer lighter than all three
\* slots still pushes the lightest slot out.
fold_step_no_noop(acc, p) ==
    LET x == acc.x
        y == acc.y
        z == acc.z
        n == p.last_new_peers
    IN  IF x = None THEN Slots(Some(p), y, z)
        ELSE IF y = None THEN
            IF n < num(x) THEN Slots(Some(p), x, z) ELSE Slots(x, Some(p), z)
        ELSE IF z = None THEN
            IF n < num(x) THEN Slots(Some(p), x, y)
            ELSE IF n < num(y) THEN Slots(x, Some(p), y)
            ELSE Slots(x, y, Some(p))
        ELSE IF n < num(y) THEN Slots(Some(p), y, z)
        ELSE IF n < num(z) THEN Slots(y, Some(p), z)
        ELSE Slots(y, z, Some(p))

\* The fold's closure: one match over (x, y, z), the arms tried in order.
fold_step(acc, p) ==
    LET x == acc.x
        y == acc.y
        z == acc.z
        n == p.last_new_peers
    IN  \* (None, _, _): set 1st
        IF x = None THEN Slots(Some(p), y, z)
        \* (t, None, _): shift-right + set 1st, or set 2nd
        ELSE IF y = None THEN
            IF n < num(x) THEN Slots(Some(p), x, z) ELSE Slots(x, Some(p), z)
        \* (s, t, None)
        ELSE IF z = None THEN
            IF n < num(x) THEN Slots(Some(p), x, y)
            ELSE IF n < num(y) THEN Slots(x, Some(p), y)
            ELSE Slots(x, y, Some(p))
        \* all three slots taken
        ELSE IF n < num(x) THEN Slots(x, y, z)
        ELSE IF n < num(y) THEN Slots(Some(p), y, z)
        ELSE IF n < num(z) THEN Slots(y, Some(p), z)
        ELSE Slots(y, z, Some(p))

RECURSIVE fold(_, _)
\* Iterator::fold over the remaining verified peers, front to back.
fold(acc, peers) ==
    IF peers = <<>> THEN acc ELSE fold(fold_step(acc, Head(peers)), Tail(peers))

heaviest3_of(rest) == fold(Slots(None, None, None), rest)

Min(a, b) == IF a < b THEN a ELSE b

\* The length taken before remove(0) took the latest peer out.
range_len_before_remove(list) == Min(Len(get_verified_peers(list)), 3)

\* The number of values gen_range(0..len) draws from.
range_len(list) == Min(Len(get_verified_peers(list)) - 1, 3)

PeerIdsOf(s) == [i \in 1..Len(s) |-> s[i].peer_id]

\* The body of select_peers_to_query from the verified peers on; r is the
\* random index, panic the failed unwrap of the chosen slot.
select_from(verif_peers, r) ==
    IF Len(verif_peers) < 3
    THEN [peers |-> PeerIdsOf(verif_peers), panic |-> FALSE]
    ELSE LET latest == Head(verif_peers).peer_id
             heaviest3 == heaviest3_of(Tail(verif_peers))
             slot == CASE r = 0 -> heaviest3.x
                       [] r = 1 -> heaviest3.y
                       [] r = 2 -> heaviest3.z
                       [] OTHER -> None
         IN  IF slot = None
             THEN [peers |-> <<>>, panic |-> TRUE]
             ELSE [peers |-> <<latest, slot[1].peer_id>>, panic |-> FALSE]

\* select_peers_to_query run on the whole list, the verified filter forgotten.
select_peers_to_query_unfiltered(list, r) == select_from(list, r)

select_peers_to_query(list, r) == select_from(get_verified_peers(list), r)

(***************************************************************************)
(* The registry and the two ticks.                                         *)
(***************************************************************************)
\* The peers of the model: 1..MaxActive start in the active list, the next
\* ReplCap ids are left for the replacement list, the last one is an entry
\* peer.
EntryId == MaxActive + ReplCap + 1
PeerIds == 1..EntryId

\* No call of select_peers_to_query recorded.
NoQuery == [called |-> FALSE, r |-> 0, out |-> [peers |-> <<>>, panic |-> FALSE]]

Kinds == {"reverify", "query"}
NoTasks == [t \in Kinds \X PeerIds |-> 0]
NoTick == [kind |-> "none", spawned |-> <<>>, panic |-> FALSE]

RECURSIVE SumOver(_, _)
SumOver(f, S) ==
    IF S = {} THEN 0
    ELSE LET e == CHOOSE e \in S : TRUE IN f[e] + SumOver(f, S \ {e})

Outstanding == SumOver(tasks, Kinds \X PeerIds)

ActiveIds(list) == {list[i].peer_id : i \in 1..Len(list)}
SeqRange(q) == {q[i] : i \in 1..Len(q)}
WithoutPeer(list, id) == LET other(ap) == ap.peer_id # id IN SelectSeq(list, other)

\* ActivePeersList::get_oldest: the peer at the back of the list.
get_oldest(list) == IF list = <<>> THEN None ELSE Some(list[Len(list)])

\* A peer_to_reverify that takes the peer at the front of the list.
peer_to_reverify_newest(list) ==
    IF list = <<>> THEN None ELSE Some(list[1].peer_id)

\* peer_to_reverify: the PeerId of the oldest active peer.
peer_to_reverify(list) ==
    IF get_oldest(list) = None THEN None ELSE Some(get_oldest(list)[1].peer_id)

\* ReplacementPeersList insert: newest first, the oldest dropped when full.
replacements_insert(list, id) ==
    IF Len(list) >= ReplCap THEN <<id>> \o SubSeq(list, 1, ReplCap - 1)
    ELSE <<id>> \o list

\* manager::remove_peer_from_active_list: the demotion. A peer of the active
\* list is removed from it, put in the replacement list, and a peer-removed
\* event is sent; a peer that is not in the active list changes nothing.
remove_peer_from_active_list(peer_id) ==
    IF peer_id \in ActiveIds(active_peers)
    THEN /\ active_peers' = WithoutPeer(active_peers, peer_id)
         /\ replacements' = replacements_insert(replacements, peer_id)
         /\ event_tx' = Append(event_tx, peer_id)
    ELSE UNCHANGED <<active_peers, replacements, event_tx>>

\* tokio::spawn of one task per peer of the sequence.
RECURSIVE spawn_all(_, _, _)
spawn_all(ts, kind, peers) ==
    IF peers = <<>> THEN ts
    ELSE spawn_all([ts EXCEPT ![<<kind, Head(peers)>>] = @ + 1], kind, Tail(peers))

\* A reverify closure that first awaits the tasks spawned before it.
reverify_fn_awaits ==
    LET target == peer_to_reverify(active_peers) IN
    /\ \A t \in Kinds \X PeerIds : tasks[t] = 0
    /\ IF target # None
       THEN /\ tasks' = spawn_all(tasks, "reverify", target)
            /\ last_tick' = [kind |-> "reverify", spawned |-> target, panic |-> FALSE]
       ELSE /\ tasks' = tasks
            /\ last_tick' = [kind |-> "reverify", spawned |-> <<>>, panic |-> FALSE]
    /\ UNCHANGED <<active_peers, entry_peers, replacements, event_tx, failed>>
    /\ UNCHANGED <<rotated, query>>
    /\ UNCHANGED procVars

\* The closure of reverify_fn, run once.
reverify_fn ==
    LET target == peer_to_reverify(active_peers) IN
    /\ IF target # None
       THEN /\ tasks' = spawn_all(tasks, "reverify", target)
            /\ last_tick' = [kind |-> "reverify", spawned |-> target, panic |-> FALSE]
       ELSE /\ tasks' = tasks
            /\ last_tick' = [kind |-> "reverify", spawned |-> <<>>, panic |-> FALSE]
    /\ UNCHANGED <<active_peers, entry_peers, replacements, event_tx, failed>>
    /\ UNCHANGED <<rotated, query>>
    /\ UNCHANGED procVars

\* One reverify tick; the model holds at most MaxTasks tasks.
ReverifyTick ==
    /\ Outstanding + 1 <= MaxTasks
    /\ reverify_fn

\* The closure of query_fn, run once; r is the random index of the selection.
query_fn(r) ==
    LET out == select_peers_to_query(active_peers, r) IN
    /\ r < range_len(active_peers) \/ r = 0
    /\ tasks' = spawn_all(tasks, "query", out.peers)
    /\ last_tick' = [kind |-> "query", spawned |-> out.peers, panic |-> out.panic]
    /\ UNCHANGED <<active_peers, entry_peers, replacements, event_tx, failed>>
    /\ UNCHANGED <<rotated, query>>
    /\ UNCHANGED procVars

\* One query tick; the model holds at most MaxTasks tasks.
QueryTick(r) ==
    /\ Outstanding + 2 <= MaxTasks
    /\ query_fn(r)

\* The reverify task finishes and its failure branch only logs.
ReverifyTaskDone_only_logs(peer_id, verified) ==
    /\ tasks[<<"reverify", peer_id>>] > 0
    /\ tasks' = [tasks EXCEPT ![<<"reverify", peer_id>>] = @ - 1]
    /\ failed' = IF verified THEN failed ELSE [failed EXCEPT ![peer_id] = @ + 1]
    /\ UNCHANGED <<active_peers, replacements, event_tx>>
    /\ UNCHANGED <<entry_peers, last_tick, rotated, query>>
    /\ UNCHANGED procVars

\* The task spawned by reverify_fn finishes: begin_verification returned
\* Some(services) (verified) or None.
ReverifyTaskDone(peer_id, verified) ==
    /\ tasks[<<"reverify", peer_id>>] > 0
    /\ tasks' = [tasks EXCEPT ![<<"reverify", peer_id>>] = @ - 1]
    /\ IF verified
       THEN /\ failed' = failed
            /\ UNCHANGED <<active_peers, replacements, event_tx>>
       ELSE /\ failed' = [failed EXCEPT ![peer_id] = @ + 1]
            /\ remove_peer_from_active_list(peer_id)
    /\ UNCHANGED <<entry_peers, last_tick, rotated, query>>
    /\ UNCHANGED procVars

\* The query task finishes and its failure branch puts the peer in the
\* replacement list without taking it out of the active list.
QueryTaskDone_keeps_active(peer_id, answered) ==
    /\ tasks[<<"query", peer_id>>] > 0
    /\ tasks' = [tasks EXCEPT ![<<"query", peer_id>>] = @ - 1]
    /\ IF answered
       THEN /\ failed' = failed
            /\ UNCHANGED <<active_peers, replacements, event_tx>>
       ELSE /\ failed' = [failed EXCEPT ![peer_id] = @ + 1]
            /\ replacements' = replacements_insert(replacements, peer_id)
            /\ event_tx' = Append(event_tx, peer_id)
            /\ UNCHANGED active_peers
    /\ UNCHANGED <<entry_peers, last_tick, rotated, query>>
    /\ UNCHANGED procVars

\* A task spawned by query_fn finishes: begin_discovery returned Some(peers)
\* (answered) or None.
QueryTaskDone(peer_id, answered) ==
    /\ tasks[<<"query", peer_id>>] > 0
    /\ tasks' = [tasks EXCEPT ![<<"query", peer_id>>] = @ - 1]
    /\ IF answered
       THEN /\ failed' = failed
            /\ UNCHANGED <<active_peers, replacements, event_tx>>
       ELSE /\ failed' = [failed EXCEPT ![peer_id] = @ + 1]
            /\ remove_peer_from_active_list(peer_id)
    /\ UNCHANGED <<entry_peers, last_tick, rotated, query>>
    /\ UNCHANGED procVars

DiscIdle ==
    /\ entry_peers = {EntryId}
    /\ replacements = <<>>
    /\ tasks = NoTasks
    /\ event_tx = <<>>
    /\ last_tick = NoTick
    /\ failed = [p \in PeerIds |-> 0]

\* The tick model starts with the n newest peers of 1..MaxActive in the active
\* list, the first v of them verified, and the replacement list empty or full.
\* The metric a verified peer starts with.
MetricOf(id) == id % 3

InitDiscovery ==
    /\ \E n \in 0..MaxActive, v \in 0..MaxActive :
          /\ v <= n
          /\ active_peers = [i \in 1..n |->
                IF i <= v THEN ActivePeer(i, 1, MetricOf(i)) ELSE ActivePeer(i, 0, 0)]
    /\ \E k \in {0, ReplCap} :
          replacements = [i \in 1..k |-> MaxActive + i]
    /\ entry_peers = {EntryId}
    /\ tasks = NoTasks
    /\ event_tx = <<>>
    /\ last_tick = NoTick
    /\ failed = [p \in PeerIds |-> 0]
    /\ rotated = FALSE
    /\ query = NoQuery
    /\ ProcIdle

NextDiscovery ==
    \/ ReverifyTick
    \/ \E r \in 0..2 : QueryTick(r)
    \/ \E p \in PeerIds, ok \in BOOLEAN : ReverifyTaskDone(p, ok)
    \/ \E p \in PeerIds, ok \in BOOLEAN : QueryTaskDone(p, ok)

DiscoverySpec == InitDiscovery /\ [][NextDiscovery]_vars

(***************************************************************************)
(* The processor's specification: the loop, the shutdown signal and the    *)
(* request/retry component working on RequestedMessages.                   *)
(***************************************************************************)
Init ==
    /\ ProcIdle
    /\ DiscIdle
    /\ active_peers = <<>>
    /\ rotated = FALSE
    /\ query = NoQuery

Next ==
    \/ \E ev \in Events : Recv(ev)
    \/ Shutdown
    \/ \E delivered \in BOOLEAN : Unpack(delivered)
    \/ \E delivered \in BOOLEAN : NetworkId(delivered)
    \/ Hash
    \/ \E delivered \in BOOLEAN : Pow(delivered)
    \/ Lookup
    \/ \E delivered, propagated \in BOOLEAN : Insert(delivered, propagated)
    \/ \E broadcast, validated \in BOOLEAN : Route(broadcast, validated)
    \/ \E id \in RequestedIds, index \in Indexes : ExternalInsert(id, index)
    \/ \E id \in RequestedIds : ExternalRemove(id)

Spec == Init /\ [][Next]_vars

\* The processor fed with messages of every payload kind: a message without
\* payload on top of the packets above, from one peer, without notifier.
PlainTwoParents == <<1, 5, 6, 0>>
PayloadEvents ==
    [pow_score : PowScores,
     from : {Some("peerA")},
     message_packet : Packets \cup {PlainTwoParents},
     notifier : {None}]

NextPayload ==
    \/ \E ev \in PayloadEvents : Recv(ev)
    \/ Shutdown
    \/ \E delivered \in BOOLEAN : Unpack(delivered)
    \/ \E delivered \in BOOLEAN : NetworkId(delivered)
    \/ Hash
    \/ \E delivered \in BOOLEAN : Pow(delivered)
    \/ Lookup
    \/ \E delivered, propagated \in BOOLEAN : Insert(delivered, propagated)
    \/ \E broadcast, validated \in BOOLEAN : Route(broadcast, validated)
    \/ \E id \in RequestedIds, index \in Indexes : ExternalInsert(id, index)
    \/ \E id \in RequestedIds : ExternalRemove(id)

PayloadSpec == Init /\ [][NextPayload]_vars

\* The worker is a spawned task of its own and none of its steps blocks for
\* ever: a step of the loop body that can be taken is taken.
FairSpec == Spec /\ WF_vars(WorkerStep)

(***************************************************************************)
(* Claims about the processor.                                             *)
(***************************************************************************)
\* The loop is between two events and cur, sent describe the last one.
Finished == pc \in {"recv", "stopped"} /\ received > 0
Rejections == {"MalformedMessage", "WrongNetwork", "InsufficientProof"}
CurId == Digest(cur.message_packet)
IsBefore(a, b, q) == \E i, j \in 1..Len(q) : i < j /\ q[i] = a /\ q[j] = b
\* tangle.insert returned Some: the New branch is running or has run.
InNewBranch == pc = "route" \/ cur.outcome = "New"
SendsNothing ==
    /\ sent.propagator = <<>>
    /\ sent.broadcaster = <<>>
    /\ sent.milestone_validator = <<>>
    /\ sent.message_requester = <<>>
AnswersOk ==
    cur.notifier # None =>
        /\ Len(sent.notifier) = 1
        /\ sent.notifier[1].result = Ok(CurId)
\* What C1 says of both arrivals apart from the peer's counter.
C1_Branches ==
    /\ InNewBranch => cur.first_arrival /\ sent.propagator = <<CurId>> /\ AnswersOk
    /\ cur.outcome = "New" =>
          /\ CurId \in DOMAIN tangle
          /\ (Len(sent.broadcaster) = 1) # (Len(sent.message_requester) >= 1)
    /\ cur.outcome = "Known" =>
          /\ ~cur.first_arrival
          /\ CurId \in DOMAIN tangle
          /\ SendsNothing
          /\ AnswersOk
          /\ metrics.known_messages >= 1

\* C1 (as stated): the first arrival of valid bytes takes the New branch, a
\* later one the Known branch, which sends nothing downstream, answers the
\* notifier with the same MessageId and increments the known-message counter
\* of the relaying peer whenever the event has an originating peer.
C1_KnownCountsRelayingPeer ==
    /\ C1_Branches
    /\ cur.outcome = "Known" /\ cur.from # None => sent.peer_known = <<cur.from[1]>>

\* C1 (amended): as stated, except that the relaying peer's known-message
\* counter is incremented when the originating peer is present and still in
\* the peer manager, and no peer counter is touched otherwise.
C1_KnownCountsRegisteredPeer ==
    /\ C1_Branches
    /\ cur.outcome = "Known" =>
          sent.peer_known = IF cur.from # None /\ cur.from[1] \in RegisteredPeers
                            THEN <<cur.from[1]>> ELSE <<>>
    /\ \A p \in RegisteredPeers : peer_metrics[p] <= metrics.known_messages

C1_Witness ==
    /\ cur.outcome = "Known"
    /\ cur.from = Some("peerA")
    /\ peer_metrics["peerA"] = 1
    /\ cur.notifier # None
    /\ Len(sent.notifier) = 1 /\ sent.notifier[1].delivered
    /\ propagator = (CurId :> 1)

\* C2 (as stated): the proof-of-work check of an event precedes the digest
\* computation of its MessageId, so a message rejected for insufficient
\* score was never hashed.
C2_PowBeforeHash ==
    /\ cur.outcome = "InsufficientProof" => cur.message_id = None
    /\ cur.message_id # None => IsBefore("pow", "hash", cur.stages)

\* The entries the loop removed are of stored messages, each removed once,
\* and only the New branch of the message itself removed one.
C7_Removals ==
    /\ \A id \in DOMAIN removals : removals[id] = 1 /\ id \in DOMAIN tangle
    /\ sent.removed # <<>> =>
          /\ cur.outcome = "New"
          /\ Len(sent.removed) = 1
          /\ sent.removed[1].message_id = CurId
    /\ cur.outcome \in Rejections \cup {"Known"} => sent.removed = <<>>
\* A step of the loop changes RequestedMessages only when it is the routing
\* of a new message, which leaves no entry for that message.
C7_StepRemoves ==
    pc' # pc =>
        IF pc = "route"
        THEN /\ CurId \notin DOMAIN requested_messages'
             /\ \A id \in DOMAIN requested_messages \ {CurId} :
                   /\ id \in DOMAIN requested_messages'
                   /\ requested_messages'[id] = requested_messages[id]
             /\ (sent'.removed # <<>>) = (CurId \in DOMAIN requested_messages)
        ELSE requested_messages' = requested_messages

\* C7: the loop removes an entry of RequestedMessages exactly when the
\* message with that id is newly accepted into the store, and at most once
\* per id: a duplicate or rejected arrival removes nothing.
C7_RemovedOnceWhenNew == []C7_Removals /\ [][C7_StepRemoves]_vars

C7_Witness ==
    /\ cur.outcome = "Known"
    /\ CurId \in DOMAIN removals
    /\ CurId \in DOMAIN requested_messages
    /\ tangle[CurId].metadata.requested

\* C8: a message of another network is rejected with WrongNetwork whatever
\* its pow score: it is not hashed, not looked up, answered with the error,
\* and no stored message is of another network.
C8_WrongNetworkRejected ==
    /\ \A id \in DOMAIN tangle : tangle[id].message.network_id = config.network_id
    /\ (/\ cur.message # None
        /\ cur.message[1].network_id # config.network_id
        /\ pc # "network_id") =>
          /\ cur.outcome = "WrongNetwork"
          /\ Finished
          /\ cur.message_id = None
          /\ SendsNothing
          /\ cur.notifier # None =>
                /\ Len(sent.notifier) = 1
                /\ sent.notifier[1].result = Err("Incompatible network ID")

C8_Witness ==
    /\ cur.outcome = "WrongNetwork"
    /\ cur.pow_score >= config.minimum_pow_score
    /\ cur.notifier # None
    /\ metrics.invalid_messages = 2

\* C9: a new message that had an entry in RequestedMessages issues one
\* parent request when its parents are equal and one per parent when they
\* differ, each with the entry's index.
C9_ParentRequests ==
    cur.outcome = "New" /\ sent.removed # <<>> =>
        LET m == cur.message[1]
            req(parent) == [message_id |-> parent, index |-> sent.removed[1].index]
        IN  sent.message_requester =
                IF m.parent1 = m.parent2 THEN <<req(m.parent1)>>
                ELSE <<req(m.parent1), req(m.parent2)>>

C9_Witness ==
    /\ cur.outcome = "New" /\ sent.removed # <<>>
    /\ cur.message[1].parent1 = cur.message[1].parent2
    /\ Len(sent.message_requester) = 1
    /\ sent.message_requester[1].index = 2

\* The replies on the notifier of the event in hand: at most one, and once
\* the event is done exactly one if it has a notifier (an error for a
\* rejection, Ok of the MessageId for New and Known), none if it has not.
C10_Replies ==
    /\ Len(sent.notifier) <= 1
    /\ cur.notifier = None => sent.notifier = <<>>
    /\ Finished /\ cur.notifier # None =>
          /\ Len(sent.notifier) = 1
          /\ cur.outcome \in Rejections =>
                ~sent.notifier[1].result.ok /\ sent.notifier[1].result.err # ""
          /\ cur.outcome \in {"New", "Known"} => sent.notifier[1].result = Ok(CurId)

\* C10: every event taken from the channel with a notifier eventually gets
\* exactly one reply on it, an error when rejected and Ok(MessageId) when New
\* or Known; an event without a notifier gets none.
C10_EventuallyOneReply ==
    /\ []C10_Replies
    /\ (pc = "unpack" /\ cur.notifier # None)
          ~> (Finished /\ Len(sent.notifier) = 1)

C10_Witness ==
    /\ Finished
    /\ cur.outcome = "InsufficientProof"
    /\ cur.notifier # None
    /\ Len(sent.notifier) = 1
    /\ received = 2

\* The body of the loop is running on an event.
Processing == pc \notin {"recv", "stopped"}
\* Whatever sends failed, a new message went through every routing step, and
\* the loop is never stopped in the middle of an event.
C11_RoutingCompleted ==
    /\ sent.failed # <<>> => InNewBranch
    /\ SeqRange(sent.failed) \subseteq Channels
    /\ InNewBranch =>
          /\ CurId \in DOMAIN tangle
          /\ sent.propagator = <<CurId>>
          /\ metrics.new_messages >= 1
    /\ cur.outcome = "New" =>
          /\ CurId \notin DOMAIN requested_messages \/ pc = "recv" \/ pc = "stopped"
          /\ (sent.broadcaster # <<>>) = (sent.removed = <<>>)
          /\ (sent.message_requester # <<>>) = (sent.removed # <<>>)
          /\ (sent.milestone_validator = <<CurId>>) = (cur.message[1].payload = 1)
    /\ pc = "stopped" =>
          IF received = 0 THEN cur = NoEvent
          ELSE cur.outcome \in Rejections \cup {"New", "Known"}
\* The loop stops only where it waits for the next event, and a step of the
\* body that ends an event brings the loop back there.
C11_StopsOnlyAtRecv ==
    /\ pc' = "stopped" /\ pc # "stopped" =>
          pc = "recv" /\ cur' = cur /\ sent' = sent /\ metrics' = metrics
    /\ Processing /\ cur'.outcome # "none" => pc' = "recv"
    /\ pc = "stopped" => pc' = "stopped"

\* C11: no processing error ends the loop. After a rejection, a closed
\* notifier or a failed send to the propagator, the broadcaster or the
\* milestone validator, the remaining steps of the event are done and the
\* loop is back at its receive; it stops only there, on the shutdown signal.
C11_ErrorsDoNotStopLoop ==
    /\ []C11_RoutingCompleted
    /\ [][C11_StopsOnlyAtRecv]_vars
    /\ Processing ~> (pc = "recv")

\* The routing step of a new message, told from the map as it is when the
\* step removes: with an entry, the parents are requested with the entry's
\* index and nothing is broadcast; without one, the packet is broadcast with
\* the event's peer as source and no parent is requested.
C12_RouteStep ==
    pc = "route" /\ pc' # pc =>
        LET m == cur.message[1]
            req(parent) == [message_id |-> parent,
                            index |-> requested_messages[CurId]]
        IN  /\ pc' = "recv" /\ cur'.outcome = "New"
            /\ IF CurId \in DOMAIN requested_messages
               THEN /\ sent'.message_requester =
                          IF m.parent1 # m.parent2
                          THEN <<req(m.parent1), req(m.parent2)>>
                          ELSE <<req(m.parent1)>>
                    /\ sent'.broadcaster = <<>>
                    /\ "broadcaster" \notin SeqRange(sent'.failed)
               ELSE /\ sent'.message_requester = <<>>
                    /\ sent'.broadcaster =
                          <<[source |-> cur.from, message |-> cur.message_packet]>>

\* C12: a newly accepted message is routed in exactly one of two ways: its
\* parents are requested (entry found at the removal) or its raw packet is
\* broadcast with its originating peer as source (no entry), never both and
\* never neither.
C12_ExactlyOneRouting ==
    /\ [][C12_RouteStep]_vars
    /\ [](cur.outcome = "New" =>
            (sent.broadcaster = <<>>) # (sent.message_requester = <<>>))

C12_Witness ==
    /\ cur.outcome = "New"
    /\ sent.broadcaster = <<[source |-> Some("peerB"), message |-> IndexationTwoParents]>>
    /\ sent.message_requester = <<>>
    /\ removals # EmptyMap

\* C13 (as stated): the requested flag stored with a new message equals
\* what the later removal from RequestedMessages finds, that is, whether
\* parent requests were issued instead of a broadcast, also while the
\* request/retry component writes to RequestedMessages.
C13_FlagMatchesRemoval ==
    cur.outcome = "New" =>
        /\ tangle[CurId].metadata.requested = (sent.removed # <<>>)
        /\ tangle[CurId].metadata.requested = (sent.message_requester # <<>>)
        /\ tangle[CurId].metadata.requested = (sent.broadcaster = <<>>)

\* C15: each MessageId takes the New branch at most once: the propagator is
\* sent each id at most once, the new counter counts each stored id once,
\* and an event whose bytes reached the store before takes the Known branch.
C15_NewOncePerId ==
    /\ DOMAIN propagator = DOMAIN tangle
    /\ \A id \in DOMAIN propagator : propagator[id] = 1
    /\ metrics.new_messages = Cardinality(DOMAIN tangle)
    /\ Len(sent.propagator) <= 1
    /\ (InNewBranch \/ cur.outcome = "Known") =>
          /\ (cur.outcome = "Known") = ~cur.first_arrival
          /\ cur.outcome = "Known" => sent.propagator = <<>>
          /\ cur.message_packet \in arrivals

C15_Witness ==
    /\ received = 2
    /\ cur.outcome = "Known"
    /\ cur.from = None
    /\ metrics.new_messages = 1 /\ metrics.known_messages = 1
    /\ propagator = (Digest(IndexationTwoParents) :> 1)

\* A step of the loop in the stages that can reject: it leaves the store,
\* RequestedMessages, the downstream channels and the new, known and peer
\* counters alone, and adds one to the invalid counter exactly when it
\* rejects. No other step of the loop touches the invalid counter.
C17_StageStep ==
    pc' # pc =>
        IF pc \in {"unpack", "network_id", "hash", "pow"}
        THEN /\ UNCHANGED <<tangle, requested_messages, propagator,
                            milestone_validator, peer_metrics, removals>>
             /\ metrics'.new_messages = metrics.new_messages
             /\ metrics'.known_messages = metrics.known_messages
             /\ metrics'.invalid_messages =
                   metrics.invalid_messages
                       + (IF cur'.outcome \in Rejections THEN 1 ELSE 0)
             /\ cur'.outcome \in Rejections \cup {"none"}
             /\ (cur'.outcome \in Rejections) = (pc' = "recv")
        ELSE metrics'.invalid_messages = metrics.invalid_messages
\* A rejected event sent nothing but the error to its notifier.
C17_RejectedSentNothing ==
    cur.outcome \in Rejections =>
        /\ SendsNothing
        /\ sent.removed = <<>> /\ sent.peer_known = <<>> /\ sent.failed = <<>>
        /\ cur.message_packet \in arrivals => CurId \in DOMAIN tangle
        /\ metrics.invalid_messages >= 1

\* C17: a rejection at the decode, network id or pow stage adds one to the
\* invalid counter and changes nothing else: not the store, not
\* RequestedMessages, no downstream channel, not the new or known counter,
\* no peer's counter.
C17_RejectionOnlyCounts ==
    /\ []C17_RejectedSentNothing
    /\ [][C17_StageStep]_vars

C17_Witness ==
    /\ cur.outcome = "MalformedMessage"
    /\ cur.from = Some("peerA")
    /\ metrics = [invalid_messages |-> 1, new_messages |-> 1, known_messages |-> 0]
    /\ peer_metrics["peerA"] = 0
    /\ DOMAIN requested_messages # {}
    /\ sent.notifier # <<>>

\* C19: the milestone validator is sent a MessageId exactly when the message
\* is newly stored and has a milestone payload, once; an event that is
\* rejected, a duplicate, or a message with an indexation payload or without
\* payload sends it nothing.
C19_MilestonesOnly ==
    /\ \A id \in DOMAIN milestone_validator :
          /\ milestone_validator[id] = 1
          /\ id \in DOMAIN tangle
          /\ tangle[id].message.payload = 1
    /\ \A id \in DOMAIN tangle :
          tangle[id].message.payload = 1 /\ ~(pc = "route" /\ CurId = id)
              => id \in DOMAIN milestone_validator
    /\ cur.outcome = "New" =>
          sent.milestone_validator =
              IF cur.message[1].payload = 1 THEN <<CurId>> ELSE <<>>
    /\ cur.outcome # "New" => sent.milestone_validator = <<>>

C19_Witness ==
    /\ received = 2
    /\ cur.outcome = "New"
    /\ cur.message[1].payload = 0
    /\ milestone_validator = (Digest(MilestoneSameParents) :> 1)
    /\ DOMAIN tangle = {Digest(MilestoneSameParents), Digest(PlainTwoParents)}

\* The three message counters added up.
Counted(m) == m.invalid_messages + m.new_messages + m.known_messages
\* The event in hand has had its counter step: a rejection and the Known
\* branch end the event, the New branch goes on to the routing.
CountedCur == pc \in {"recv", "stopped", "route"}
\* The counters add up to the events taken, less the one in hand that is not
\* counted yet; the counter of a finished event is the one of its outcome.
C21_CountersAddUp ==
    /\ Counted(metrics) = IF CountedCur THEN received ELSE received - 1
    /\ cur.outcome \in Rejections => metrics.invalid_messages >= 1
    /\ InNewBranch => metrics.new_messages >= 1
    /\ cur.outcome = "Known" => metrics.known_messages >= 1
\* A step changes at most one counter, by one, and only the step that
\* decides the event's outcome does: the counter is the outcome's.
C21_CountStep ==
    LET d_invalid == metrics'.invalid_messages - metrics.invalid_messages
        d_new == metrics'.new_messages - metrics.new_messages
        d_known == metrics'.known_messages - metrics.known_messages
    IN  /\ <<d_invalid, d_new, d_known>> \in
              {<<0, 0, 0>>, <<1, 0, 0>>, <<0, 1, 0>>, <<0, 0, 1>>}
        /\ d_invalid = 1 => ~CountedCur /\ cur'.outcome \in Rejections
        /\ d_new = 1 => ~CountedCur /\ pc' = "route"
        /\ d_known = 1 => ~CountedCur /\ cur'.outcome = "Known"
        /\ ~CountedCur /\ CountedCur' => d_invalid + d_new + d_known = 1

\* C21: the invalid, new and known counters add up to the number of events
\* processed: every event increments exactly one of the three, once.
C21_OneCounterPerEvent ==
    /\ []C21_CountersAddUp
    /\ [][C21_CountStep]_vars

C21_Witness ==
    /\ pc = "stopped"
    /\ received = MaxEvents
    /\ cur.outcome = "New"
    /\ metrics.invalid_messages = 1
    /\ metrics.new_messages = MaxEvents - 1
    /\ metrics.known_messages = 0

C11_Witness ==
    /\ received = 2
    /\ metrics.invalid_messages = 1
    /\ pc = "recv"
    /\ cur.outcome = "New"
    /\ cur.notifier # None /\ ~sent.notifier[1].delivered
    /\ sent.failed = <<"propagator", "broadcaster", "milestone_validator">>
    /\ sent.milestone_validator = <<CurId>>

(***************************************************************************)
(* The selection as a function of the list: every list of up to MaxPeers   *)
(* peers, every draw of the random index.                                  *)
(***************************************************************************)
\* What a peer of a list is drawn from: never verified (and so never queried:
\* last_new_peers 0), or verified with any metric.
PeerStates == {<<0, 0>>} \cup ({1} \X Metrics)

ListsOfLen(n) ==
    {[i \in 1..n |-> ActivePeer(i, f[i][1], f[i][2])] : f \in [1..n -> PeerStates]}

InitSelect ==
    /\ \E n \in 0..MaxPeers : active_peers \in ListsOfLen(n)
    /\ rotated = FALSE
    /\ query = NoQuery
    /\ DiscIdle
    /\ ProcIdle

\* One call of select_peers_to_query; r is what thread_rng().gen_range(0..len) returns.
SelectCall(r) ==
    /\ r < range_len(active_peers) \/ r = 0
    /\ query' = [called |-> TRUE, r |-> r, out |-> select_peers_to_query(active_peers, r)]
    /\ UNCHANGED <<active_peers, rotated>>
    /\ UNCHANGED discVars
    /\ UNCHANGED procVars

\* ActivePeersList::rotate_forwards: the last peer becomes the first. The list
\* changed, so the record of the last call is dropped.
RotateForwards ==
    /\ Len(active_peers) >= 2
    /\ active_peers' = <<active_peers[Len(active_peers)]>>
                            \o SubSeq(active_peers, 1, Len(active_peers) - 1)
    /\ rotated' = TRUE
    /\ query' = NoQuery
    /\ UNCHANGED discVars
    /\ UNCHANGED procVars

NextSelect ==
    \/ \E r \in 0..2 : SelectCall(r)
    \/ RotateForwards

SelectSpec == InitSelect /\ [][NextSelect]_vars

(***************************************************************************)
(* Claims about the selection.                                             *)
(***************************************************************************)
\* The verified peers of the list by position, written out from the list.
VerifiedIdx == {i \in 1..Len(active_peers) : active_peers[i].verified_count >= 1}
PosOf(id) == CHOOSE i \in 1..Len(active_peers) : active_peers[i].peer_id = id
FirstVerified == CHOOSE i \in VerifiedIdx : \A j \in VerifiedIdx : i <= j
\* The verified peers after the first: the ones the top-3 fold runs over.
RestIdx == VerifiedIdx \ {FirstVerified}
\* The peers the fold kept in its three slots.
Top3Ids ==
    LET h == heaviest3_of(Tail(get_verified_peers(active_peers))) IN
    {s[1].peer_id : s \in {h.x, h.y, h.z} \ {None}}
InTop3(i) == active_peers[i].peer_id \in Top3Ids
\* Two non-latest verified peers, i before j, with equal metrics, of which
\* exactly one is in the top-3 set.
TiedPair(i, j) ==
    /\ i \in RestIdx /\ j \in RestIdx /\ i < j
    /\ active_peers[i].last_new_peers = active_peers[j].last_new_peers
    /\ InTop3(i) # InTop3(j)
BigQuery == query.called /\ Cardinality(VerifiedIdx) >= 3

C4_LatestAndHeavy ==
    BigQuery =>
        LET out == query.out IN
        /\ ~out.panic
        /\ Len(out.peers) = 2
        /\ out.peers[1] = active_peers[FirstVerified].peer_id
        /\ out.peers[2] # out.peers[1]
        /\ \E i \in RestIdx :
              /\ active_peers[i].peer_id = out.peers[2]
              /\ Cardinality({j \in RestIdx : active_peers[j].last_new_peers
                                               > active_peers[i].last_new_peers}) < 3

C4_Witness ==
    /\ BigQuery /\ rotated
    /\ Cardinality(RestIdx) >= 4
    /\ query.r = 2
    /\ Len(query.out.peers) = 2
    /\ \E i \in RestIdx : active_peers[i].last_new_peers < active_peers[PosOf(query.out.peers[2])].last_new_peers

\* C5: with 0, 1 or 2 verified peers the selection is exactly the verified
\* peers, in list order; and a peer with verified_count = 0 is never selected.
C5_SmallReturnsVerified ==
    query.called =>
        LET out == query.out IN
        /\ \A k \in 1..Len(out.peers) : PosOf(out.peers[k]) \in VerifiedIdx
        /\ Cardinality(VerifiedIdx) < 3 =>
              /\ ~out.panic
              /\ Len(out.peers) = Cardinality(VerifiedIdx)
              /\ \A k, l \in 1..Len(out.peers) :
                    k < l => PosOf(out.peers[k]) < PosOf(out.peers[l])

C5_Witness ==
    /\ query.called
    /\ Cardinality(VerifiedIdx) = 2
    /\ Len(active_peers) >= 4
    /\ Len(query.out.peers) = 2

\* C20: select_peers_to_query never panics. With at least 3 verified peers
\* the range of the random index is not empty and stays below 3, every slot
\* of the top-3 tuple the index can choose is filled, and a call returns
\* without a failed unwrap.
C20_NeverPanics ==
    /\ query.called => ~query.out.panic
    /\ Cardinality(VerifiedIdx) >= 3 =>
          LET h == heaviest3_of(Tail(get_verified_peers(active_peers)))
              len == range_len(active_peers)
              slot(r) == CASE r = 0 -> h.x
                           [] r = 1 -> h.y
                           [] r = 2 -> h.z
                           [] OTHER -> None
          IN  /\ len \in {2, 3}
              /\ len = Min(Cardinality(RestIdx), 3)
              /\ \A r \in 0..(len - 1) : slot(r) # None
              /\ query.called => query.r < len

C20_Witness ==
    /\ query.called
    /\ Cardinality(VerifiedIdx) = 3
    /\ Len(active_peers) = MaxPeers
    /\ query.r = 1
    /\ Len(query.out.peers) = 2
    /\ ~rotated

(***************************************************************************)
(* Claims about the ticks.                                                 *)
(***************************************************************************)
Count(q, e) == Cardinality({i \in 1..Len(q) : q[i] = e})
\* The peers of the last ReplCap peer-removed events.
LastRemoved ==
    {event_tx[i] : i \in {j \in 1..Len(event_tx) : j > Len(event_tx) - ReplCap}}

\* C6: once a reverify or query task for P has failed, P is not in the active
\* list, exactly one peer-removed event was sent for P however many tasks for
\* P failed, and P is in the replacement list once unless later demotions
\* pushed it out; no event is sent for a peer none of whose tasks failed.
C6_FailureDemotesOnce ==
    \A p \in PeerIds :
        /\ failed[p] >= 1 =>
              /\ p \notin ActiveIds(active_peers)
              /\ Count(event_tx, p) = 1
              /\ Count(replacements, p) <= 1
              /\ p \in LastRemoved => p \in SeqRange(replacements)
        /\ failed[p] = 0 => Count(event_tx, p) = 0

C6_Witness ==
    \E p, q \in PeerIds :
        /\ failed[p] >= 2 /\ failed[q] = 1 /\ p # q
        /\ Len(replacements) = ReplCap
        /\ event_tx = <<p, q>>

NoRepeats(q) == \A i, j \in 1..Len(q) : i # j => q[i] # q[j]

\* C14: whatever ticks ran and whatever tasks finished, in any order, a
\* PeerId is at most once in the active, entry and replacement lists taken
\* together.
C14_PeerIdsUnique ==
    /\ NoRepeats(PeerIdsOf(active_peers))
    /\ NoRepeats(replacements)
    /\ ActiveIds(active_peers) \cap SeqRange(replacements) = {}
    /\ ActiveIds(active_peers) \cap entry_peers = {}
    /\ SeqRange(replacements) \cap entry_peers = {}

C14_Witness ==
    \E p \in PeerIds :
        /\ failed[p] >= 2
        /\ SeqRange(replacements) = {p}
        /\ Len(event_tx) >= 2
        /\ active_peers # <<>>
        /\ Outstanding > 0

\* C16: a tick never waits for the tasks of earlier ticks: whatever tasks
\* are pending, and no task ever has to finish, the closure of either tick
\* can run, as one step that spawns its tasks and is done.
C16_TicksNeverWait ==
    /\ ENABLED reverify_fn
    /\ ENABLED query_fn(0)

C16_Witness ==
    /\ last_tick.kind = "query"
    /\ Len(last_tick.spawned) = 2
    /\ Outstanding = MaxTasks
    /\ \E p \in PeerIds : tasks[<<"reverify", p>>] = 1
    /\ \A p \in PeerIds : failed[p] = 0

\* The reverify tasks a step started, per peer.
ReverifyStarted(p) == tasks'[<<"reverify", p>>] - tasks[<<"reverify", p>>]
\* A step of a reverify tick: it records itself in last_tick or starts a task.
IsReverifyTick ==
    \/ \E p \in PeerIds : ReverifyStarted(p) > 0
    \/ last_tick' # last_tick /\ last_tick'.kind = "reverify"
C18_TickStep ==
    IsReverifyTick =>
        /\ UNCHANGED <<active_peers, entry_peers, replacements, event_tx, failed>>
        /\ \A p \in PeerIds : tasks'[<<"query", p>>] = tasks[<<"query", p>>]
        /\ IF active_peers = <<>>
           THEN tasks' = tasks /\ last_tick'.spawned = <<>>
           ELSE LET oldest == active_peers[Len(active_peers)].peer_id IN
                /\ last_tick'.spawned = <<oldest>>
                /\ \A p \in PeerIds :
                      ReverifyStarted(p) = IF p = oldest THEN 1 ELSE 0

\* C18: a reverify tick starts exactly one verification task, for the peer
\* that is the oldest of the active list when the tick runs, and touches no
\* list; with an empty active list it starts nothing and changes nothing.
C18_ReverifyTargetsOldest == [][C18_TickStep]_vars

C18_Witness ==
    /\ last_tick.kind = "reverify"
    /\ Len(active_peers) >= 2
    /\ last_tick.spawned = <<active_peers[Len(active_peers)].peer_id>>
    /\ tasks[<<"reverify", active_peers[Len(active_peers)].peer_id>>] = 2
    /\ Len(event_tx) = 1

====
